---- MODULE Spec2Model ----
(***************************************************************************)
(* Model of the 0D Bueno-Orovio cell model:                                *)
(*   src/bueno_orovio/ops.py                (the kinetics, pure functions) *)
(*   src/implementation/bueno_orovio_0d.py  (Stimulation, BuenoOrovio0D)   *)
(*                                                                         *)
(* Python floats are IEEE-754 binary64.  They are modelled bit for bit:    *)
(* a finite float is a record [s, m, e] of value (-1)^s * m * 2^e whose    *)
(* significand m is a natural number of exactly 53 bits (or zero), held as *)
(* four digits in base 2^14.  +, -, *, / round to nearest, *)
(* ties to even, as the hardware does.  The model's inputs keep every      *)
(* value far inside the normal range, so infinities, NaNs and subnormals   *)
(* do not occur; the sign of zero is not modelled (0.0 == -0.0 in every    *)
(* comparison the program makes).                                          *)
(***************************************************************************)
EXTENDS Integers, Sequences, FiniteSets, TLC

(***************************************************************************)
(* Natural numbers in base B = 2^14, the lowest digit first.  A            *)
(* significand is four digits; the arithmetic below works on five (70      *)
(* bits), which hold a significand with its guard bits, a quotient of 57   *)
(* bits, or the upper digits of a product.                                 *)
(***************************************************************************)
B == 2^14

(* Below, <<a, b, r>>[3] is r with a and b evaluated first, in that order:  *)
(* the order of the statements of the code.                                *)

\* the digits d of the number whose five columns (sums of digits, of either
\* sign) are c, and the carry k out of the top digit (-1 for a negative number)
Carry5(c) ==
    LET t1 == c[1]
        t2 == c[2] + t1 \div B
        t3 == c[3] + t2 \div B
        t4 == c[4] + t3 \div B
        t5 == c[5] + t4 \div B
    IN  [d |-> <<t1 % B, t2 % B, t3 % B, t4 % B, t5 % B>>, k |-> t5 \div B]

Add5(a, b) == Carry5(<<a[1] + b[1], a[2] + b[2], a[3] + b[3], a[4] + b[4], a[5] + b[5]>>)

\* a - b - borrow
Sub5(a, b, borrow) ==
    Carry5(<<a[1] - b[1] - borrow, a[2] - b[2], a[3] - b[3], a[4] - b[4], a[5] - b[5]>>)

\* -1, 0, 1 as a < b, a = b, a > b, for a and b equal above digit j
RECURSIVE Cmp(_, _, _)
Cmp(a, b, j) ==
    IF j = 0 THEN 0
    ELSE IF a[j] # b[j] THEN (IF a[j] < b[j] THEN -1 ELSE 1)
    ELSE Cmp(a, b, j - 1)

\* the six digits t shifted down by the bits of a divisor lo, hi = B / lo
ShrBits(t, lo, hi) ==
    <<t[1] \div lo + (t[2] % lo) * hi, t[2] \div lo + (t[3] % lo) * hi,
      t[3] \div lo + (t[4] % lo) * hi, t[4] \div lo + (t[5] % lo) * hi,
      t[5] \div lo + (t[6] % lo) * hi>>

\* floor(a / 2^n), for 0 <= n <= 70
Shr5(a, n) ==
    ShrBits(SubSeq(a \o <<0, 0, 0, 0, 0, 0>>, n \div 14 + 1, n \div 14 + 6),
            2^(n % 14), 2^(14 - (n % 14)))

\* the six digits t (the lowest is the one below the result) shifted up by the
\* bits of a factor lo, hi = B / lo
ShlBits(t, lo, hi) ==
    <<(t[2] % hi) * lo + t[1] \div hi, (t[3] % hi) * lo + t[2] \div hi,
      (t[4] % hi) * lo + t[3] \div hi, (t[5] % hi) * lo + t[4] \div hi,
      (t[6] % hi) * lo + t[5] \div hi>>

\* a * 2^n, for 0 <= n <= 56 and a product below B^5
Shl5(a, n) ==
    ShlBits(SubSeq(<<0, 0, 0, 0, 0>> \o a, 5 - n \div 14, 10 - n \div 14),
            2^(n % 14), 2^(14 - (n % 14)))

\* whether a mod 2^n is not zero, for 0 <= n <= 70
Low5(a, n) ==
    \/ SubSeq(a, 1, n \div 14) # SubSeq(<<0, 0, 0, 0, 0>>, 1, n \div 14)
    \/ (a \o <<0>>)[n \div 14 + 1] % 2^(n % 14) # 0

\* bit i of a (bit 0 is the lowest), for 0 <= i < 70
Bit5(a, i) == (a[i \div 14 + 1] \div 2^(i % 14)) % 2

\* the number of bits of the digit n
BitLen14(n) ==
    IF n >= 128
    THEN (IF n >= 2048 THEN (IF n >= 8192 THEN 14 ELSE IF n >= 4096 THEN 13 ELSE 12)
          ELSE IF n >= 512 THEN (IF n >= 1024 THEN 11 ELSE 10)
          ELSE IF n >= 256 THEN 9 ELSE 8)
    ELSE (IF n >= 8 THEN (IF n >= 64 THEN 7 ELSE IF n >= 32 THEN 6 ELSE IF n >= 16 THEN 5 ELSE 4)
          ELSE IF n >= 4 THEN 3 ELSE IF n >= 2 THEN 2 ELSE n)

\* the highest digit of a that is not zero (1 for a = 0)
Top(a) ==
    IF a[5] # 0 THEN 5 ELSE IF a[4] # 0 THEN 4 ELSE IF a[3] # 0 THEN 3
    ELSE IF a[2] # 0 THEN 2 ELSE 1

\* the number of bits of a, whose highest digit is digit t
BitLen5(a, t) == 14 * (t - 1) + BitLen14(a[t])

(***************************************************************************)
(* binary64                                                                *)
(***************************************************************************)
Zero == [s |-> 0, m |-> <<0, 0, 0, 0>>, e |-> 0]

IsZero(x) == x.m[4] = 0

\* the float (-1)^s * q * 2^e for q = 0, q of 53 bits, or q = 2^53
Pack(s, q, e) ==
    IF q[4] = 0 THEN Zero
    ELSE IF q[4] = 2048 THEN [s |-> s, m |-> <<0, 0, 0, 1024>>, e |-> e + 1]
    ELSE [s |-> s, m |-> SubSeq(q, 1, 4), e |-> e]

\* p, which has 53 + d bits, rounded to 53: exact when d <= 0, else to nearest
\* and on a tie to even
RoundBits(s, p, e, sticky, d) ==
    IF d <= 0 THEN Pack(s, Shl5(p, -d), e + d)
    ELSE IF Bit5(p, d - 1) = 1 /\ (Low5(p, d - 1) \/ sticky \/ Bit5(p, d) = 1)
    THEN Pack(s, Add5(Shr5(p, d), <<1, 0, 0, 0, 0>>).d, e + d)
    ELSE Pack(s, Shr5(p, d), e + d)

\* (-1)^s * p * 2^e (and a little more when sticky) rounded to a float
Round5(s, p, e, sticky) ==
    IF p = <<0, 0, 0, 0, 0>> THEN Zero
    ELSE RoundBits(s, p, e, sticky, BitLen5(p, Top(p)) - 53)

\* the float of sign s and magnitude the int a
FNat(s, a) == Round5(s, <<a % B, (a \div B) % B, a \div (B * B), 0, 0>>, 0, FALSE)

\* float(n) for an int n
FInt(n) == IF n < 0 THEN FNat(1, -n) ELSE FNat(0, n)

FNeg(x) == IF IsZero(x) THEN x ELSE [x EXCEPT !.s = 1 - x.s]

FAbs(x) == [x EXCEPT !.s = 0]

\* -1, 0, 1 as |a| < |b|, |a| = |b|, |a| > |b|
MagCmp(a, b) ==
    IF IsZero(a) THEN (IF IsZero(b) THEN 0 ELSE -1)
    ELSE IF IsZero(b) THEN 1
    ELSE IF a.e < b.e THEN -1
    ELSE IF a.e > b.e THEN 1
    ELSE Cmp(a.m, b.m, 4)

\* -1, 0, 1 as a < b, a == b, a > b
FCmp(a, b) ==
    IF a.s # b.s THEN (IF IsZero(a) /\ IsZero(b) THEN 0 ELSE IF a.s = 1 THEN -1 ELSE 1)
    ELSE IF a.s = 0 THEN MagCmp(a, b) ELSE MagCmp(b, a)

FLt(a, b) == FCmp(a, b) < 0
FLe(a, b) == FCmp(a, b) <= 0
FGe(a, b) == FCmp(a, b) >= 0
FEq(a, b) == FCmp(a, b) = 0

\* the significand m shifted down n bits under 14 guard bits, and whether bits
\* were lost below them
Align(m, n) == [m |-> Shr5(<<0>> \o m, n), lost |-> Low5(<<0>> \o m, n)]

\* the sign and magnitude of x.m - y.m (x and y of opposite signs), given the
\* difference t taken as if |x| >= |y|
AddDiffer(x, y, t) ==
    IF t.k >= 0 THEN [s |-> x.s, m |-> t.d]
    ELSE [s |-> y.s, m |-> Sub5(y.m, x.m, 0).d]

\* the sign and magnitude of the sum of x and y, aligned significands with
\* their signs
AddSigned(x, y) ==
    IF x.s = y.s THEN [s |-> x.s, m |-> Add5(x.m, y.m).d]
    ELSE AddDiffer(x, y, Sub5(x.m, y.m, IF y.lost THEN 1 ELSE 0))

AddRound(r, e, lost) == Round5(r.s, r.m, e, lost)

\* x + y for x.e >= y.e, neither zero
AddOrdered(x, y, al) ==
    <<al,
      AddRound(AddSigned([s |-> x.s, m |-> <<0>> \o x.m],
                         [s |-> y.s, m |-> al.m, lost |-> al.lost]),
               x.e - 14, al.lost)>>[2]

\* a + b: the operand of the smaller exponent is shifted down under 14 guard
\* bits, and what falls off below them is remembered as sticky
FAdd(a, b) ==
    IF IsZero(a) THEN b
    ELSE IF IsZero(b) THEN a
    ELSE IF a.e >= b.e THEN AddOrdered(a, b, Align(b.m, IF a.e - b.e > 70 THEN 70 ELSE a.e - b.e))
    ELSE AddOrdered(b, a, Align(a.m, IF b.e - a.e > 70 THEN 70 ELSE b.e - a.e))

\* a - b
FSub(a, b) == FAdd(a, FNeg(b))

\* the eight digits of the product of the significands x and y
Product(x, y) ==
    LET t1 == x[1] * y[1]
        t2 == x[1] * y[2] + x[2] * y[1] + t1 \div B
        t3 == x[1] * y[3] + x[2] * y[2] + x[3] * y[1] + t2 \div B
        t4 == x[1] * y[4] + x[2] * y[3] + x[3] * y[2] + x[4] * y[1] + t3 \div B
        t5 == x[2] * y[4] + x[3] * y[3] + x[4] * y[2] + t4 \div B
        t6 == x[3] * y[4] + x[4] * y[3] + t5 \div B
        t7 == x[4] * y[4] + t6 \div B
    IN  <<t1 % B, t2 % B, t3 % B, t4 % B, t5 % B, t6 % B, t7 % B, t7 \div B>>

\* the product p of eight digits rounded: its upper five digits, sticky for the
\* lower three
MulRound(s, e, p) ==
    <<p, Round5(s, SubSeq(p, 4, 8), e, SubSeq(p, 1, 3) # <<0, 0, 0>>)>>[2]

\* a * b
FMul(a, b) ==
    IF IsZero(a) \/ IsZero(b) THEN Zero
    ELSE MulRound((a.s + b.s) % 2, a.e + b.e + 42, Product(a.m, b.m))

\* the digit q and the remainder t of a division step whose remainder came out
\* as t (negative when q was estimated too big)
RECURSIVE DivFix(_, _, _)
DivFix(d, q, t) ==
    IF t.k >= 0 THEN [q |-> q, r |-> t.d]
    ELSE DivFix(d, q - 1, Carry5(<<t.d[1] + d[1], t.d[2] + d[2], t.d[3] + d[3],
                                   t.d[4] + d[4], t.d[5] + t.k * B>>))

\* r * B - q * d for the estimate q of the digit
DivDigit(r, d, q) ==
    <<q, DivFix(d, q, Carry5(<<0 - q * d[1], r[1] - q * d[2], r[2] - q * d[3],
                               r[3] - q * d[4], r[4]>>))>>[2]

\* [q, r]: the digit q = floor(r * B / d) and the remainder, for r < d < B^4
\* with the top digit of d at least B / 2; the digit is estimated from the top
\* digits
DivStep(r, d) ==
    DivDigit(r, d, IF (r[4] * B + r[3]) \div d[4] > B - 1 THEN B - 1
                   ELSE (r[4] * B + r[3]) \div d[4])

\* the five digits of floor(r * B^4 / d) and the remainder, for r < 2 * d
Quot(r, d) ==
    LET t == Sub5(r, d, 0)
        s1 == DivStep(IF t.k >= 0 THEN t.d ELSE r, d)
        s2 == DivStep(s1.r, d)
        s3 == DivStep(s2.r, d)
        s4 == DivStep(s3.r, d)
    IN  <<r, d, t, s1, s2, s3,
          [q |-> <<s1.q, s2.q, s3.q, s4.q, IF t.k >= 0 THEN 1 ELSE 0>>, r |-> s4.r]>>[7]

\* the quotient Q rounded: its digits are the highest first
DivRound(s, e, Q) ==
    <<Q, Round5(s, <<Q.q[4], Q.q[3], Q.q[2], Q.q[1], Q.q[5]>>, e, Q.r # <<0, 0, 0, 0, 0>>)>>[2]

\* a / b, for b # 0: 57 bits of quotient, sticky for a remainder
FDiv(a, b) ==
    IF IsZero(a) THEN Zero
    ELSE DivRound((a.s + b.s) % 2, a.e - b.e - 56,
                  Quot(Shl5(a.m \o <<0>>, 3), Shl5(b.m \o <<0>>, 3)))

\* the float nearest to the decimal n / d: what Python reads a literal as
Dec(n, d) == FDiv(FInt(n), FInt(d))

\* x's magnitude as an int, with its fractional bits dropped (round = FALSE) or
\* rounded to nearest, ties to even; for |x| < 2^28, n the number of
\* fractional bits
ToNat(p, n, round) ==
    Shr5(p, n)[1] + B * Shr5(p, n)[2]
    + (IF round /\ n > 0 /\ Bit5(p, n - 1) = 1 /\ (Low5(p, n - 1) \/ Bit5(p, n) = 1)
       THEN 1 ELSE 0)

ToInt(x, round) ==
    (IF x.s = 1 THEN -1 ELSE 1)
    * ToNat(x.m \o <<0, 0>>, IF x.e < -70 THEN 70 ELSE -x.e, round)

\* round(x): the nearest int, ties to the even one
PyRound(x) == ToInt(x, TRUE)

\* int(x): x with its fraction dropped
PyInt(x) == ToInt(x, FALSE)

\* x * 2^k
Scalb(x, k) == IF IsZero(x) THEN x ELSE [x EXCEPT !.e = @ + k]

One == FInt(1)
Two == FInt(2)
Half == Scalb(One, -1)

(***************************************************************************)
(* math.tanh.  Python hands the call to the C library; this is the         *)
(* library's algorithm (fdlibm's s_tanh.c and s_expm1.c, which glibc       *)
(* carries), operation for operation.  The constants are the doubles the C *)
(* source gives as hexadecimal words.                                      *)
(***************************************************************************)
Ln2Hi == [s |-> 0, m |-> <<0, 15232, 9263, 1419>>, e |-> -53]    \* 3fe62e42 fee00000
Ln2Lo == [s |-> 0, m |-> <<15478, 5604, 7923, 1678>>, e |-> -85]    \* 3dea39ef 35793c76
InvLn2 == [s |-> 0, m |-> <<766, 5294, 5238, 1477>>, e |-> -52]    \* 3ff71547 652b82fe
Q1 == [s |-> 1, m |-> <<4340, 1092, 4369, 1092>>, e |-> -57]    \* bfa11111 111110f4
Q2 == [s |-> 0, m |-> <<5509, 10233, 6657, 1664>>, e |-> -62]    \* 3f5a01a0 19fe5585
Q3 == [s |-> 1, m |-> <<7095, 15019, 8601, 1331>>, e |-> -66]    \* bf14ce19 9eaadbb7
Q4 == [s |-> 0, m |-> <<4665, 7065, 15528, 1075>>, e |-> -70]    \* 3ed0cfca 86e65239
Q5 == [s |-> 1, m |-> <<813, 14375, 7030, 1727>>, e |-> -75]    \* be8afdb7 6e09c32d
\* the bounds the C code tests on the high word of |x|
Ln2Times56 == [s |-> 0, m |-> <<0, 0, 1952, 1242>>, e |-> -47]    \* 4043687a 00000000
Ln2Half == [s |-> 0, m |-> <<0, 0, 9264, 1419>>, e |-> -54]    \* 3fd62e43 00000000
Ln2Times3Half == [s |-> 0, m |-> <<0, 0, 11040, 1064>>, e |-> -52]    \* 3ff0a2b2 00000000

Three == FInt(3)
Six == FInt(6)

(* expm1 keeps its variables in a frame f, a record; a statement of the C  *)
(* code is an operator from the frame before it to the frame after it.     *)

\* a polynomial in x by Horner's rule: r is the value so far, qs the
\* coefficients still to come, the highest first
RECURSIVE Horner(_, _, _)
Horner(x, r, qs) ==
    <<r, IF qs = <<>> THEN r
         ELSE Horner(x, FAdd(Head(qs), FMul(x, r)), Tail(qs))>>[2]

\* hfx = 0.5*x
Expm1_hfx(f) == f @@ [hfx |-> FMul(Half, f.x)]

\* hxs = x*hfx
Expm1_hxs(f) == f @@ [hxs |-> FMul(f.x, f.hfx)]

\* r1 = one+hxs*(Q1+hxs*(Q2+hxs*(Q3+hxs*(Q4+hxs*Q5))))
Expm1_r1(f) == f @@ [r1 |-> Horner(f.hxs, Q5, <<Q4, Q3, Q2, Q1, One>>)]

\* t = 3.0-r1*hfx
Expm1_t(f) == f @@ [t |-> FSub(Three, FMul(f.r1, f.hfx))]

\* e = hxs*((r1-t)/(6.0 - x*t))
Expm1_e(f) ==
    f @@ [e |-> FMul(f.hxs, FDiv(FSub(f.r1, f.t), FSub(Six, FMul(f.x, f.t))))]

\* for k # 0: e = (x*(e-c)-c); e -= hxs
Expm1_ec(f) ==
    IF f.k = 0 THEN f
    ELSE [f EXCEPT !.e = FSub(FSub(FMul(f.x, FSub(f.e, f.c)), f.c), f.hxs)]

\* what expm1 returns for k # 0
Expm1_scaled(x, e, k) ==
    IF k = -1 THEN FSub(FMul(Half, FSub(x, e)), Half)
    ELSE IF k = 1
    THEN (IF FLt(x, FNeg(Scalb(One, -2)))
          THEN FMul(FNeg(Two), FSub(e, FAdd(x, Half)))
          ELSE FAdd(One, FMul(Two, FSub(x, e))))
    ELSE IF k <= -2 \/ k > 56 THEN FSub(Scalb(FSub(One, FSub(e, x)), k), One)
    ELSE IF k < 20 THEN Scalb(FSub(FSub(One, Scalb(One, -k)), FSub(e, x)), k)
    ELSE Scalb(FAdd(FSub(x, FAdd(e, Scalb(One, -k))), One), k)

\* what expm1 returns: x - (x*e-hxs) for k = 0
Expm1_return(f) ==
    IF f.k = 0 THEN FSub(f.x, FSub(FMul(f.x, f.e), f.hxs))
    ELSE Expm1_scaled(f.x, f.e, f.k)

\* the argument reduction, for |x| > 0.5 ln2: k, and hi and lo when
\* |x| < 1.5 ln2
Expm1_k(x) ==
    IF FLt(FAbs(x), Ln2Times3Half)
    THEN [k |-> IF x.s = 0 THEN 1 ELSE -1,
          hi |-> IF x.s = 0 THEN FSub(x, Ln2Hi) ELSE FAdd(x, Ln2Hi),
          lo |-> IF x.s = 0 THEN Ln2Lo ELSE FNeg(Ln2Lo)]
    ELSE [k |-> PyInt(FAdd(FMul(InvLn2, x), IF x.s = 0 THEN Half ELSE FNeg(Half)))]

\* hi = x - t*ln2_hi; lo = t*ln2_lo, for t = k
Expm1_hilo(x, g) ==
    IF "hi" \in DOMAIN g THEN g
    ELSE g @@ [hi |-> FSub(x, FMul(FInt(g.k), Ln2Hi)), lo |-> FMul(FInt(g.k), Ln2Lo)]

\* x = hi - lo
Expm1_x(g) == g @@ [x |-> FSub(g.hi, g.lo)]

\* c = (hi-x)-lo
Expm1_c(g) == [x |-> g.x, c |-> FSub(FSub(g.hi, g.x), g.lo), k |-> g.k]

\* expm1 from the frame f after the argument reduction: the reduced x, its
\* correction c, and the power of two k taken out
Expm1Reduced(f) ==
    Expm1_return(Expm1_ec(Expm1_e(Expm1_t(Expm1_r1(Expm1_hxs(Expm1_hfx(f)))))))

\* expm1(x) = exp(x) - 1, for x below the overflow bound
CExpm1(x) ==
    IF x.s = 1 /\ FGe(FAbs(x), Ln2Times56) THEN FNeg(One)
    ELSE IF ~FGe(FAbs(x), Ln2Half) /\ FLt(FAbs(x), Scalb(One, -54)) THEN x
    ELSE Expm1Reduced(IF FGe(FAbs(x), Ln2Half)
                      THEN Expm1_c(Expm1_x(Expm1_hilo(x, Expm1_k(x))))
                      ELSE [x |-> x, c |-> Zero, k |-> 0])

\* z of tanh for 2^-55 <= |x| < 22, from t = expm1(two*fabs(x)) when |x| >= 1
\* and t = expm1(-two*fabs(x)) when not
Tanh_z(ge1, t) ==
    <<t, IF ge1 THEN FSub(One, FDiv(Two, FAdd(t, Two))) ELSE FDiv(FNeg(t), FAdd(t, Two))>>[2]

\* z with the sign of x
Tanh_sign(x, z) == IF x.s = 0 THEN z ELSE FNeg(z)

\* tanh(x)
CTanh(x) ==
    IF FLt(FAbs(x), Scalb(One, -55)) THEN FMul(x, FAdd(One, x))
    ELSE IF FGe(FAbs(x), FInt(22)) THEN Tanh_sign(x, One)
    ELSE Tanh_sign(x, Tanh_z(FGe(FAbs(x), One),
                             CExpm1(FMul(IF FGe(FAbs(x), One) THEN Two ELSE FNeg(Two),
                                         FAbs(x)))))

(***************************************************************************)
(* Python's float arithmetic.  A division by zero raises ZeroDivisionError *)
(* instead of giving a value; the exception takes the place of the value   *)
(* of every expression it is raised in.                                    *)
(***************************************************************************)
ZeroDivisionError == [exc |-> "ZeroDivisionError"]

IsExc(x) == "exc" \in DOMAIN x

\* a + b
Add(a, b) == IF IsExc(a) THEN a ELSE IF IsExc(b) THEN b ELSE FAdd(a, b)

\* a - b
Sub(a, b) == IF IsExc(a) THEN a ELSE IF IsExc(b) THEN b ELSE FSub(a, b)

\* a * b
Mul(a, b) == IF IsExc(a) THEN a ELSE IF IsExc(b) THEN b ELSE FMul(a, b)

\* a / b giving 0.0 for a zero divisor instead of raising
Div_guarded(a, b) ==
    IF IsExc(a) THEN a ELSE IF IsExc(b) THEN b
    ELSE IF IsZero(b) THEN Zero ELSE FDiv(a, b)

\* a / b
Div(a, b) ==
    IF IsExc(a) THEN a ELSE IF IsExc(b) THEN b
    ELSE IF IsZero(b) THEN ZeroDivisionError ELSE FDiv(a, b)

\* -a
Neg(a) == IF IsExc(a) THEN a ELSE FNeg(a)

\* math.tanh(x)
tanh(x) == IF IsExc(x) THEN x ELSE CTanh(x)

(***************************************************************************)
(* src/bueno_orovio/ops.py                                                 *)
(***************************************************************************)
\* a dict display makes a new object: the heap h with the dict d added, and
\* the reference to it
new(h, d) == [heap |-> Append(h, d), ref |-> Len(h) + 1]

\* get_variables returning one module-level dict to every caller
get_variables_shared(h) ==
    IF h = <<>> THEN new(h, [u |-> Zero, v |-> One, w |-> One, s |-> Zero])
    ELSE [heap |-> h, ref |-> 1]

get_variables(h) == new(h, [u |-> Zero, v |-> One, w |-> One, s |-> Zero])

get_parameters(h) ==
    new(h, [u_o |-> Zero,
            u_u |-> Dec(155, 100),
            theta_v |-> Dec(3, 10),
            theta_w |-> Dec(13, 100),
            theta_v_m |-> Dec(6, 1000),
            theta_o |-> Dec(6, 1000),
            tau_v1_m |-> FInt(60),
            tau_v2_m |-> FInt(1150),
            tau_v_p |-> Dec(14506, 10000),
            tau_w1_m |-> FInt(60),
            tau_w2_m |-> FInt(15),
            k_w_m |-> FInt(65),
            u_w_m |-> Dec(3, 100),
            tau_w_p |-> FInt(200),
            tau_fi |-> Dec(11, 100),
            tau_o1 |-> FInt(400),
            tau_o2 |-> FInt(6),
            tau_so1 |-> Dec(300181, 10000),
            tau_so2 |-> Dec(9957, 10000),
            k_so |-> Dec(20458, 10000),
            u_so |-> Dec(65, 100),
            tau_s1 |-> Dec(27342, 10000),
            tau_s2 |-> FInt(16),
            k_s |-> Dec(20994, 10000),
            u_s |-> Dec(9087, 10000),
            tau_si |-> Dec(18875, 10000),
            tau_w_inf |-> Dec(7, 100),
            w_inf_ |-> Dec(94, 100)])

calc_rhs(J_fi, J_so, J_si) == Sub(Sub(Neg(J_fi), J_so), J_si)

\* calc_v with the sign of the decay lost
calc_v_sign(v, u, theta_v, v_inf, tau_v_m, tau_v_p) ==
    IF FLt(Sub(u, theta_v), Zero) THEN Div(Sub(v_inf, v), tau_v_m)
    ELSE Div(v, tau_v_p)

calc_v(v, u, theta_v, v_inf, tau_v_m, tau_v_p) ==
    IF FLt(Sub(u, theta_v), Zero) THEN Div(Sub(v_inf, v), tau_v_m)
    ELSE Div(Neg(v), tau_v_p)

calc_w(w, u, theta_w, w_inf, tau_w_m, tau_w_p) ==
    IF FLt(Sub(u, theta_w), Zero) THEN Div(Sub(w_inf, w), tau_w_m)
    ELSE Div(Neg(w), tau_w_p)

calc_s(s, u, tau_s, k_s, u_s) ==
    Div(Sub(Div(Add(One, tanh(Mul(k_s, Sub(u, u_s)))), Two), s), tau_s)

\* H with > for >=
H_gt(u, theta) == IF FLt(Zero, Sub(u, theta)) THEN One ELSE Zero

\* H = 1.0 if (u - theta) >= 0 else 0.0
H(u, theta) == IF FGe(Sub(u, theta), Zero) THEN One ELSE Zero

calc_Jfi(u, v, theta_v, u_u, tau_fi) ==
    Div(Mul(Mul(Mul(Neg(v), H(u, theta_v)), Sub(u, theta_v)), Sub(u_u, u)), tau_fi)

calc_Jso(u, u_o, theta_w, tau_o, tau_so) ==
    Add(Div(Mul(Sub(u, u_o), Sub(One, H(u, theta_w))), tau_o), Div(H(u, theta_w), tau_so))

calc_Jsi(u, w, s, theta_w, tau_si) ==
    Div(Mul(Mul(Neg(H(u, theta_w)), w), s), tau_si)

calc_tau_v_m(u, theta_v_m, tau_v1_m, tau_v2_m) ==
    IF FLt(Sub(u, theta_v_m), Zero) THEN tau_v1_m ELSE tau_v2_m

calc_tau_w_m(u, tau_w1_m, tau_w2_m, k_w_m, u_w_m) ==
    Add(tau_w1_m, Div(Mul(Sub(tau_w2_m, tau_w1_m),
                          Add(One, tanh(Mul(k_w_m, Sub(u, u_w_m))))), Two))

calc_tau_so(u, tau_so1, tau_so2, k_so, u_so) ==
    Add(tau_so1, Div(Mul(Sub(tau_so2, tau_so1),
                         Add(One, tanh(Mul(k_so, Sub(u, u_so))))), Two))

calc_tau_s(u, tau_s1, tau_s2, theta_w) ==
    IF FLt(Sub(u, theta_w), Zero) THEN tau_s1 ELSE tau_s2

calc_tau_o(u, tau_o1, tau_o2, theta_o) ==
    IF FLt(Sub(u, theta_o), Zero) THEN tau_o1 ELSE tau_o2

calc_v_inf(u, theta_v_m) == IF FLt(u, theta_v_m) THEN One ELSE Zero

\* calc_w_inf with its two branches exchanged
calc_w_inf_swapped(u, theta_o, tau_w_inf, w_inf_) ==
    IF FLt(Sub(u, theta_o), Zero) THEN w_inf_ ELSE Sub(One, Div(u, tau_w_inf))

calc_w_inf(u, theta_o, tau_w_inf, w_inf_) ==
    IF FLt(Sub(u, theta_o), Zero) THEN Sub(One, Div(u, tau_w_inf)) ELSE w_inf_

(***************************************************************************)
(* src/implementation/bueno_orovio_0d.py                                   *)
(***************************************************************************)
Stimulation(t_start, duration, amplitude) ==
    [t_start |-> t_start, duration |-> duration, amplitude |-> amplitude]

\* Stimulation.stim
stim(self, t) ==
    IF FLe(self.t_start, t) /\ FLt(t, FAdd(self.t_start, self.duration))
    THEN self.amplitude ELSE Zero

\* the builtin sum: 0 + xs[1] + ... + xs[n], from the left
RECURSIVE sum(_)
sum(xs) == IF xs = <<>> THEN Zero ELSE FAdd(sum(SubSeq(xs, 1, Len(xs) - 1)), xs[Len(xs)])

\* self.dt = dt; self.stimulations = stimulations, and the references to the
\* three dicts a, b and c
init_self(dt, stimulations, a, b, c) ==
    [heap |-> c.heap,
     self |-> [dt |-> dt, stimulations |-> stimulations,
               variables |-> a.ref, parameters |-> b.ref, history |-> c.ref]]

\* self.history = {s: [] for s in self.variables}
init_history(dt, stimulations, a, b) ==
    init_self(dt, stimulations, a, b, new(b.heap, [s \in DOMAIN b.heap[a.ref] |-> <<>>]))

\* self.parameters = ops.get_parameters()
init_parameters(dt, stimulations, a) ==
    init_history(dt, stimulations, a, get_parameters(a.heap))

\* BuenoOrovio0D.__init__: the heap with the new model's three dicts, and the model
BuenoOrovio0D(h, dt, stimulations) ==
    init_parameters(dt, stimulations, get_variables(h))

(* step runs on a frame f: the variables dict as the statements so far     *)
(* left it, whether one of them raised, and the locals J_fi, J_so, J_si    *)
(* and I (the sum of the stimuli) once they are bound.  A statement is an  *)
(* operator from the frame before it to the frame after it; after a raise  *)
(* the frame stays as it is.                                               *)

\* self.variables[k] += y
iadd(f, k, y) ==
    IF IsExc(y) THEN [f EXCEPT !.raised = TRUE]
    ELSE [f EXCEPT !.variables[k] = FAdd(@, y)]

\* name = y
bind(f, name, y) ==
    IF IsExc(y) THEN [f EXCEPT !.raised = TRUE] ELSE f @@ (name :> y)

\* v_inf = ...; tau_v_m = ...; self.variables["v"] += self.dt*ops.calc_v(...)
step_v(f, p, dt) ==
    IF f.raised THEN f
    ELSE iadd(f, "v", Mul(dt, calc_v(f.variables.v, f.variables.u, p.theta_v,
                                     calc_v_inf(f.variables.u, p.theta_v_m),
                                     calc_tau_v_m(f.variables.u, p.theta_v_m,
                                                  p.tau_v1_m, p.tau_v2_m),
                                     p.tau_v_p)))

\* tau_w_m = ...; self.variables["w"] += self.dt*ops.calc_w(...), given w_inf
step_w_inf(f, p, dt, w_inf) ==
    IF IsExc(w_inf) THEN [f EXCEPT !.raised = TRUE]
    ELSE iadd(f, "w", Mul(dt, calc_w(f.variables.w, f.variables.u, p.theta_w, w_inf,
                                     calc_tau_w_m(f.variables.u, p.tau_w1_m, p.tau_w2_m,
                                                  p.k_w_m, p.u_w_m),
                                     p.tau_w_p)))

\* w_inf = ops.calc_w_inf(...), and the statements that use it
step_w(f, p, dt) ==
    IF f.raised THEN f
    ELSE step_w_inf(f, p, dt, calc_w_inf(f.variables.u, p.theta_o, p.tau_w_inf, p.w_inf_))

\* tau_s = ...; self.variables["s"] += self.dt*ops.calc_s(...)
step_s(f, p, dt) ==
    IF f.raised THEN f
    ELSE iadd(f, "s", Mul(dt, calc_s(f.variables.s, f.variables.u,
                                     calc_tau_s(f.variables.u, p.tau_s1, p.tau_s2, p.theta_w),
                                     p.k_s, p.u_s)))

\* J_fi = ops.calc_Jfi(...)
step_Jfi(f, p) ==
    IF f.raised THEN f
    ELSE bind(f, "J_fi", calc_Jfi(f.variables.u, f.variables.v, p.theta_v, p.u_u, p.tau_fi))

\* tau_o = ...; tau_so = ...; J_so = ops.calc_Jso(...)
step_Jso(f, p) ==
    IF f.raised THEN f
    ELSE bind(f, "J_so", calc_Jso(f.variables.u, p.u_o, p.theta_w,
                                  calc_tau_o(f.variables.u, p.tau_o1, p.tau_o2, p.theta_o),
                                  calc_tau_so(f.variables.u, p.tau_so1, p.tau_so2,
                                              p.k_so, p.u_so)))

\* J_si = ops.calc_Jsi(...)
step_Jsi(f, p) ==
    IF f.raised THEN f
    ELSE bind(f, "J_si", calc_Jsi(f.variables.u, f.variables.w, f.variables.s,
                                  p.theta_w, p.tau_si))

\* sum(stim.stim(t=self.dt*i) for stim in self.stimulations)
step_sum(f, dt, stimulations, i) ==
    IF f.raised THEN f
    ELSE bind(f, "I", sum([k \in 1..Len(stimulations) |->
                              stim(stimulations[k], FMul(dt, FInt(i)))]))

\* self.variables["u"] += self.dt*(ops.calc_rhs(J_fi, J_so, J_si) + sum(...))
step_u(f, dt) ==
    IF f.raised THEN f
    ELSE iadd(f, "u", Mul(dt, Add(calc_rhs(f.J_fi, f.J_so, f.J_si), f.I)))

\* step computing the currents before it updates the gates
step_currents_first(x, p, dt, stimulations, i) ==
    step_u(step_s(step_w(step_v(step_sum(step_Jsi(step_Jso(step_Jfi(
        [variables |-> x, raised |-> FALSE], p), p), p), dt, stimulations, i),
        p, dt), p, dt), p, dt), dt)

\* BuenoOrovio0D.step on the dicts x (variables) and p (parameters): the variables
\* it leaves, whether it raised, and the currents and stimulus it computed
step(x, p, dt, stimulations, i) ==
    step_u(step_sum(step_Jsi(step_Jso(step_Jfi(step_s(step_w(step_v(
        [variables |-> x, raised |-> FALSE], p, dt), p, dt), p, dt), p), p), p),
        dt, stimulations, i), dt)

\* the parameters a caller may set to zero
TimeConstants == {"tau_fi", "tau_si", "tau_v_p", "tau_w_inf"}

\* the record of one execution of step: its index, whether run called it, the
\* variables at entry, the time constants that were zero, and what step gave
Executed(i, via, x, p, r) ==
    [i |-> i, via |-> via, pre |-> x,
     zeros |-> {name \in TimeConstants : IsZero(p[name])}, out |-> r]

\* the loop body appending to the history of u alone
append_u(history, variables) == [history EXCEPT !.u = Append(@, variables.u)]

\* for s in self.variables: self.history[s].append(self.variables[s])
append(history, variables) ==
    [s \in DOMAIN variables |-> Append(history[s], variables[s])]

\* the heap h after a completed step that left the variables x, and the appends
\* of the loop body
loop_body(h, self, x) ==
    [h EXCEPT ![self.variables] = x, ![self.history] = append(@, x)]

\* int(t_max / dt), without round
n_steps_int(q) == PyInt(q)

\* int(round(t_max / dt)), for a quotient q
n_steps(q) == PyRound(q)

\* the loop of run from index i on: the heap it leaves, whether a step raised, and
\* the steps it executed
RECURSIVE run_loop(_, _, _, _, _)

\* the loop of run after self.step(i) gave r
run_stepped(h, self, i, n, log, r) ==
    IF r.raised
    THEN [heap |-> [h EXCEPT ![self.variables] = r.variables], raised |-> TRUE,
          log |-> Append(log, Executed(i, "run", h[self.variables], h[self.parameters], r))]
    ELSE run_loop(loop_body(h, self, r.variables), self, i + 1, n,
                  Append(log, Executed(i, "run", h[self.variables], h[self.parameters], r)))

run_loop(h, self, i, n, log) ==
    <<h, log,
      IF i >= n THEN [heap |-> h, raised |-> FALSE, log |-> log]
      ELSE run_stepped(h, self, i, n, log,
                       step(h[self.variables], h[self.parameters], self.dt,
                            self.stimulations, i))>>[3]

\* run, given the quotient q = t_max/self.dt
run_q(h, self, q) ==
    IF IsExc(q) THEN [heap |-> h, raised |-> TRUE, log |-> <<>>]
    ELSE run_loop(h, self, 0, n_steps(q), <<>>)

\* BuenoOrovio0D.run
run(h, self, t_max) == run_q(h, self, Div(t_max, self.dt))

(***************************************************************************)
(* The state: the heap of dicts, the models constructed (each holding      *)
(* references into the heap), and for each model the calls made on it and  *)
(* the executions of step so far.  probe holds the arguments and results   *)
(* of the functions of ops.py called on their own.                         *)
(***************************************************************************)
VARIABLES heap, models, calls, trace, probe

vars == <<heap, models, calls, trace, probe>>

MaxCalls == 2
MaxSteps == 3
MaxCallsTwo == 4

\* the stimulation of src/examples/bueno_orovio_example.py
Example == Stimulation(Dec(1, 10), Dec(2, 10), FInt(5))

\* the arguments the constructor is given
Configs ==
    {[dt |-> Dec(1, 10), stimulations |-> <<Example, Stimulation(Dec(2, 10), Dec(2, 10), FInt(-2))>>],
     [dt |-> Dec(1, 100), stimulations |-> <<Example>>],
     [dt |-> Dec(3, 10), stimulations |-> <<>>],
     [dt |-> Dec(14506, 10000), stimulations |-> <<Stimulation(Zero, Two, Dec(15, 100))>>],
     [dt |-> Dec(7253, 10000), stimulations |-> <<Stimulation(Zero, Two, Half)>>],
     [dt |-> Zero, stimulations |-> <<>>],
     [dt |-> Dec(-1, 10), stimulations |-> <<>>]}

ConfigsTwo ==
    {[dt |-> Dec(1, 10), stimulations |-> <<Example>>],
     [dt |-> Dec(3, 10), stimulations |-> <<>>]}

TMaxSet == {Dec(3, 10), Dec(25, 100), One, Dec(45, 10)}

TMaxSetTwo == {Dec(3, 10), One}

StepIndices == {2, 30}

\* the state after the constructor gave o
Constructed(o) == heap = o.heap /\ models = <<o.self>>

Init ==
    /\ \E k \in Configs : Constructed(BuenoOrovio0D(<<>>, k.dt, k.stimulations))
    /\ calls = <<<<>>>>
    /\ trace = <<<<>>>>
    /\ probe = <<>>

\* the state after the constructor gave o1 and then o2
ConstructedTwo(o1, o2) == heap = o2.heap /\ models = <<o1.self, o2.self>>

\* the second construction, after the first gave o1
ConstructTwo(k, o1) == ConstructedTwo(o1, BuenoOrovio0D(o1.heap, k.dt, k.stimulations))

\* two models constructed with the same arguments
InitTwo ==
    /\ \E k \in ConfigsTwo : ConstructTwo(k, BuenoOrovio0D(<<>>, k.dt, k.stimulations))
    /\ calls = <<<<>>, <<>>>>
    /\ trace = <<<<>>, <<>>>>
    /\ probe = <<>>

\* the state after models[o].run(t_max) gave r
Ran(o, t_max, r) ==
    /\ heap' = r.heap
    /\ calls' = [calls EXCEPT ![o] = Append(@,
           [op |-> "run", arg |-> t_max, raised |-> r.raised, steps |-> Len(r.log)])]
    /\ trace' = [trace EXCEPT ![o] = @ \o r.log]

\* whether run makes at most MaxSteps steps, for the quotient q = t_max/self.dt
Bounded(q) == IF IsExc(q) THEN TRUE ELSE n_steps(q) <= MaxSteps

\* models[o].run(t_max), for a run of at most MaxSteps steps
Run(o, t_max) ==
    /\ Len(calls[o]) < MaxCalls
    /\ Bounded(Div(t_max, models[o].dt))
    /\ Ran(o, t_max, run(heap, models[o], t_max))
    /\ UNCHANGED <<models, probe>>

\* the state after models[o].step(i) gave r
Stepped(o, i, self, r) ==
    /\ heap' = [heap EXCEPT ![self.variables] = r.variables]
    /\ calls' = [calls EXCEPT ![o] = Append(@,
           [op |-> "step", arg |-> i, raised |-> r.raised, steps |-> 1])]
    /\ trace' = [trace EXCEPT ![o] = Append(@,
           Executed(i, "step", heap[self.variables], heap[self.parameters], r))]

\* models[o].step(i)
Step(o, i) ==
    /\ Len(calls[o]) < MaxCalls
    /\ Stepped(o, i, models[o],
               step(heap[models[o].variables], heap[models[o].parameters],
                    models[o].dt, models[o].stimulations, i))
    /\ UNCHANGED <<models, probe>>

\* models[o].parameters[name] = value
SetParameter(o, name, value) ==
    /\ Len(calls[o]) < MaxCalls
    /\ heap' = [heap EXCEPT ![models[o].parameters][name] = value]
    /\ calls' = [calls EXCEPT ![o] = Append(@,
           [op |-> "set", arg |-> name, raised |-> FALSE, steps |-> 0])]
    /\ UNCHANGED <<models, trace, probe>>

Next ==
    \/ \E t_max \in TMaxSet : Run(1, t_max)
    \/ \E i \in StepIndices : Step(1, i)
    \/ \E name \in TimeConstants : SetParameter(1, name, Zero)

Spec == Init /\ [][Next]_vars

\* models[o].run(t_max), among the calls made on the two models
RunTwo(o, t_max) ==
    /\ Len(calls[1]) + Len(calls[2]) < MaxCallsTwo
    /\ Bounded(Div(t_max, models[o].dt))
    /\ Ran(o, t_max, run(heap, models[o], t_max))
    /\ UNCHANGED <<models, probe>>

NextTwo == \E o \in {1, 2} : \E t_max \in TMaxSetTwo : RunTwo(o, t_max)

SpecTwo == InitTwo /\ [][NextTwo]_vars

(***************************************************************************)
(* The functions of ops.py called on their own.  The initial state draws   *)
(* the arguments u, v, w and s; an action calls one function on them, with *)
(* the default parameters, and records what it gave.                       *)
(***************************************************************************)
\* the floats next to x, for x not a power of two
Below(x) == FSub(x, Scalb(One, x.e))

Above(x) == FAdd(x, Scalb(One, x.e))

\* the membrane potentials tried: each threshold and the floats next to it
ProbeU ==
    {Zero, One,
     Below(Dec(6, 1000)), Dec(6, 1000), Above(Dec(6, 1000)),
     Below(Dec(13, 100)), Dec(13, 100), Above(Dec(13, 100)),
     Below(Dec(3, 10)), Dec(3, 10), Above(Dec(3, 10))}

ProbeV == {Half, One}

InitOps ==
    /\ heap = get_parameters(<<>>).heap
    /\ models = <<>>
    /\ calls = <<>>
    /\ trace = <<>>
    /\ \E u \in ProbeU : \E v \in ProbeV :
         probe = [u |-> u, v |-> v, w |-> One, s |-> Half,
                  fn |-> "none", theta |-> Zero, out |-> Zero]

\* the state after fn, whose threshold is theta, gave out
Called(fn, theta, out) ==
    /\ probe' = [probe EXCEPT !.fn = fn, !.theta = theta, !.out = out]
    /\ UNCHANGED <<heap, models, calls, trace>>

Call_calc_v_inf ==
    Called("calc_v_inf", heap[1].theta_v_m, calc_v_inf(probe.u, heap[1].theta_v_m))

Call_calc_w_inf ==
    Called("calc_w_inf", heap[1].theta_o,
           calc_w_inf(probe.u, heap[1].theta_o, heap[1].tau_w_inf, heap[1].w_inf_))

Call_calc_tau_v_m ==
    Called("calc_tau_v_m", heap[1].theta_v_m,
           calc_tau_v_m(probe.u, heap[1].theta_v_m, heap[1].tau_v1_m, heap[1].tau_v2_m))

Call_calc_tau_o ==
    Called("calc_tau_o", heap[1].theta_o,
           calc_tau_o(probe.u, heap[1].tau_o1, heap[1].tau_o2, heap[1].theta_o))

Call_calc_tau_s ==
    Called("calc_tau_s", heap[1].theta_w,
           calc_tau_s(probe.u, heap[1].tau_s1, heap[1].tau_s2, heap[1].theta_w))

\* calc_v with v_inf = 1.0 and tau_v_m = tau_v1_m
Call_calc_v ==
    Called("calc_v", heap[1].theta_v,
           calc_v(probe.v, probe.u, heap[1].theta_v, One, heap[1].tau_v1_m, heap[1].tau_v_p))

\* calc_w with w_inf = w_inf_ and tau_w_m = tau_w1_m
Call_calc_w ==
    Called("calc_w", heap[1].theta_w,
           calc_w(probe.w, probe.u, heap[1].theta_w, heap[1].w_inf_, heap[1].tau_w1_m,
                  heap[1].tau_w_p))

\* the functions with a gate H: the gate and the current
Call_calc_Jfi ==
    Called("calc_Jfi", heap[1].theta_v,
           [H |-> H(probe.u, heap[1].theta_v),
            J |-> calc_Jfi(probe.u, probe.v, heap[1].theta_v, heap[1].u_u, heap[1].tau_fi)])

\* calc_Jso with tau_o = tau_o1 and tau_so = tau_so1
Call_calc_Jso ==
    Called("calc_Jso", heap[1].theta_w,
           [H |-> H(probe.u, heap[1].theta_w),
            J |-> calc_Jso(probe.u, heap[1].u_o, heap[1].theta_w, heap[1].tau_o1,
                           heap[1].tau_so1)])

Call_calc_Jsi ==
    Called("calc_Jsi", heap[1].theta_w,
           [H |-> H(probe.u, heap[1].theta_w),
            J |-> calc_Jsi(probe.u, probe.w, probe.s, heap[1].theta_w, heap[1].tau_si)])

NextOps ==
    \/ Call_calc_v_inf
    \/ Call_calc_w_inf
    \/ Call_calc_tau_v_m
    \/ Call_calc_tau_o
    \/ Call_calc_tau_s
    \/ Call_calc_v
    \/ Call_calc_w
    \/ Call_calc_Jfi
    \/ Call_calc_Jso
    \/ Call_calc_Jsi

SpecOps == InitOps /\ [][NextOps]_vars

(***************************************************************************)
(* The properties.                                                         *)
(***************************************************************************)
\* the parameters get_parameters gives
Defaults == get_parameters(<<>>).heap[1]

\* the four keys of the variables and history dicts
Keys == {"u", "v", "w", "s"}

\* the history dict of model o
History(o) == heap[models[o].history]

\* an execution of step with the default parameters that returned
Normal(e) == e.zeros = {} /\ ~e.out.raised

\* the sum of the amplitudes of the stimulations whose window holds t
StimulusAt(stimulations, t) ==
    sum([k \in 1..Len(stimulations) |->
           IF FLe(stimulations[k].t_start, t)
              /\ FLt(t, FAdd(stimulations[k].t_start, stimulations[k].duration))
           THEN stimulations[k].amplitude ELSE Zero])

\* the update of u from the currents and the stimulus the step computed
EulerU(dt, e) ==
    e.out.variables.u =
        FAdd(e.pre.u, FMul(dt, FAdd(calc_rhs(e.out.J_fi, e.out.J_so, e.out.J_si), e.out.I)))

\* J_fi and J_si computed from the gates as the step left them
UsesUpdated(e) ==
    /\ e.out.J_fi = calc_Jfi(e.pre.u, e.out.variables.v, Defaults.theta_v, Defaults.u_u,
                             Defaults.tau_fi)
    /\ e.out.J_si = calc_Jsi(e.pre.u, e.out.variables.w, e.out.variables.s, Defaults.theta_w,
                             Defaults.tau_si)

\* J_fi and J_si computed from the gates as they were at the start of the step
UsesStart(e) ==
    /\ e.out.J_fi = calc_Jfi(e.pre.u, e.pre.v, Defaults.theta_v, Defaults.u_u, Defaults.tau_fi)
    /\ e.out.J_si = calc_Jsi(e.pre.u, e.pre.w, e.pre.s, Defaults.theta_w, Defaults.tau_si)

C2_RunSteps ==
    \A o \in DOMAIN calls :
        (Len(calls[o]) = 1 /\ calls[o][1].op = "run" /\ FLt(Zero, models[o].dt)) =>
            /\ ~calls[o][1].raised
            /\ FLe(FAbs(FSub(FInt(calls[o][1].steps), FDiv(calls[o][1].arg, models[o].dt))),
                   Half)
            /\ (models[o].dt = Dec(3, 10) /\ calls[o][1].arg = One => calls[o][1].steps = 3)
            /\ Len(trace[o]) = calls[o][1].steps
            /\ \A k \in DOMAIN trace[o] :
                   /\ trace[o][k].i = k - 1
                   /\ trace[o][k].via = "run"
                   /\ ~trace[o][k].out.raised
            /\ \A x \in Keys :
                   /\ Len(History(o)[x]) = calls[o][1].steps
                   /\ \A k \in DOMAIN trace[o] :
                          History(o)[x][k] = trace[o][k].out.variables[x]

\* C2, its case: run(1.0) with dt = 0.3 has returned after three steps
C2_Witness ==
    /\ models[1].dt = Dec(3, 10)
    /\ Len(calls[1]) = 1
    /\ calls[1][1].op = "run"
    /\ calls[1][1].arg = One
    /\ Len(History(1).u) = 3

\* C3: the stimulus term of step(i) is the sum over the entries of amplitude if
\* t_start <= dt*i < t_start + duration and 0 otherwise, and for the entry
\* (0.1, 0.2, 5.0) it is 0 at 0.30
C3_HalfOpenWindows ==
    \A o \in DOMAIN trace : \A k \in DOMAIN trace[o] :
        ~trace[o][k].out.raised =>
            /\ trace[o][k].out.I =
                   StimulusAt(models[o].stimulations, FMul(models[o].dt, FInt(trace[o][k].i)))
            /\ (/\ models[o].stimulations = <<Example>>
                /\ FMul(models[o].dt, FInt(trace[o][k].i)) = Dec(3, 10))
               => trace[o][k].out.I = Zero

\* a model without stimulations whose parameters nobody has set
Unforced(o) ==
    /\ models[o].stimulations = <<>>
    /\ \A j \in DOMAIN calls[o] : calls[o][j].op # "set"

\* s after one step from rest with dt = 0.3: 0.0023648280755190665
RestS == [s |-> 0, m |-> <<11753, 8028, 13942, 1239>>, e |-> -61]

\* C4 as amended: without stimulations and with the default parameters every
\* step leaves u, v and w at (0, 1, 1), but s is not left at 0: a step from
\* s = 0 gives s # 0 whenever dt # 0 (0.0023648280755190665 for dt = 0.3)
C4_RestKeepsUVW ==
    \A o \in DOMAIN trace :
        Unforced(o) =>
            \A k \in DOMAIN trace[o] :
                /\ ~trace[o][k].out.raised
                /\ IsZero(trace[o][k].out.variables.u)
                /\ trace[o][k].out.variables.v = One
                /\ trace[o][k].out.variables.w = One
                /\ IsZero(trace[o][k].pre.s) =>
                       /\ IsZero(trace[o][k].out.variables.s) <=> IsZero(models[o].dt)
                       /\ models[o].dt = Dec(3, 10) => trace[o][k].out.variables.s = RestS

\* C4 as claimed: without stimulations and with the default parameters a step
\* leaves all four variables as they were
C4_RestIsFixedPoint ==
    \A o \in DOMAIN trace :
        Unforced(o) =>
            \A k \in DOMAIN trace[o] : trace[o][k].out.variables = trace[o][k].pre

\* C4, its case: two steps from rest with dt = 0.3
C4_Witness ==
    /\ Unforced(1)
    /\ models[1].dt = Dec(3, 10)
    /\ Len(trace[1]) >= 2
    /\ trace[1][1].out.variables.s = RestS
    /\ FLt(RestS, trace[1][2].out.variables.s)

\* what a function with a hard branch gives below its threshold and at or above it
Branches(fn) ==
    IF fn = "calc_v_inf" THEN <<One, Zero>>
    ELSE IF fn = "calc_w_inf"
    THEN <<FSub(One, FDiv(probe.u, Defaults.tau_w_inf)), Defaults.w_inf_>>
    ELSE IF fn = "calc_tau_v_m" THEN <<Defaults.tau_v1_m, Defaults.tau_v2_m>>
    ELSE IF fn = "calc_tau_o" THEN <<Defaults.tau_o1, Defaults.tau_o2>>
    ELSE IF fn = "calc_tau_s" THEN <<Defaults.tau_s1, Defaults.tau_s2>>
    ELSE IF fn = "calc_v"
    THEN <<FDiv(FSub(One, probe.v), Defaults.tau_v1_m), FDiv(FNeg(probe.v), Defaults.tau_v_p)>>
    ELSE <<FDiv(FSub(Defaults.w_inf_, probe.w), Defaults.tau_w1_m),
           FDiv(FNeg(probe.w), Defaults.tau_w_p)>>

\* what a function with a gate gives with the gate closed and with it open
Gated(fn) ==
    IF fn = "calc_Jfi"
    THEN <<Zero, FDiv(FMul(FMul(FNeg(probe.v), FSub(probe.u, Defaults.theta_v)),
                           FSub(Defaults.u_u, probe.u)), Defaults.tau_fi)>>
    ELSE IF fn = "calc_Jso"
    THEN <<FDiv(FSub(probe.u, Defaults.u_o), Defaults.tau_o1), FDiv(One, Defaults.tau_so1)>>
    ELSE <<Zero, FDiv(FMul(FNeg(probe.w), probe.s), Defaults.tau_si)>>

Args(o) == [j \in DOMAIN calls[o] |-> calls[o][j].arg]

\* two models given the same calls are in the same state
SameCallsSameState ==
    Args(1) = Args(2) =>
        /\ calls[1] = calls[2]
        /\ trace[1] = trace[2]
        /\ heap[models[1].variables] = heap[models[2].variables]
        /\ heap[models[1].parameters] = heap[models[2].parameters]
        /\ History(1) = History(2)

\* a call on one model leaves the dicts of the other as they are
Isolated ==
    \A o \in DOMAIN models :
        calls[o]' = calls[o] =>
            /\ heap[models[o].variables]' = heap[models[o].variables]
            /\ heap[models[o].parameters]' = heap[models[o].parameters]
            /\ heap[models[o].history]' = heap[models[o].history]

\* C6: two models constructed with the same arguments and given the same run
\* calls have the same variables after every step and the same history, and a
\* run of one never changes the variables, parameters or history of the other
C6_Deterministic == [](SameCallsSameState) /\ [][Isolated]_vars

\* C6, its case: both models have made the same two runs
C6_Witness ==
    /\ Len(calls[1]) = 2
    /\ Args(1) = Args(2)
    /\ Len(trace[1]) >= 2

\* the steps of the calls 1 .. j made on model o
RECURSIVE StepsUpTo(_, _)
StepsUpTo(o, j) == IF j = 0 THEN 0 ELSE StepsUpTo(o, j - 1) + calls[o][j].steps

\* step divides by a time constant that is zero
ZeroDivisor(e) ==
    \/ "tau_fi" \in e.zeros
    \/ "tau_si" \in e.zeros
    \/ "tau_w_inf" \in e.zeros /\ FLt(e.pre.u, Defaults.theta_o)
    \/ "tau_v_p" \in e.zeros /\ ~FLt(e.pre.u, Defaults.theta_v)

\* C7 as amended: run and step validate nothing and return normally (run with
\* dt < 0 after no step) except that a division by zero raises
\* ZeroDivisionError: in run when dt == 0, before any step, and in step when
\* tau_fi or tau_si is 0, when tau_w_inf is 0 and u < theta_o, or when tau_v_p
\* is 0 and u >= theta_v; a step that raises leaves u as it was
C7_RaisesOnZeroDivisor ==
    \A o \in DOMAIN calls :
        /\ \A k \in DOMAIN trace[o] :
               /\ trace[o][k].out.raised <=> ZeroDivisor(trace[o][k])
               /\ trace[o][k].out.raised => trace[o][k].out.variables.u = trace[o][k].pre.u
        /\ \A j \in DOMAIN calls[o] :
               /\ calls[o][j].op = "run" =>
                      /\ calls[o][j].raised <=>
                             \/ IsZero(models[o].dt)
                             \/ /\ calls[o][j].steps > 0
                                /\ trace[o][StepsUpTo(o, j)].out.raised
                      /\ IsZero(models[o].dt) \/ FLt(models[o].dt, Zero) =>
                             calls[o][j].steps = 0
               /\ calls[o][j].op = "step" =>
                      (calls[o][j].raised <=> trace[o][StepsUpTo(o, j)].out.raised)

\* C7 as claimed: for every dt and every parameter set, run and step return
\* normally
C7_NeverRaises ==
    \A o \in DOMAIN calls : \A j \in DOMAIN calls[o] : ~calls[o][j].raised

\* C7, its case: step was called with tau_fi == 0, and raised after the gates
\* were updated
C7_Witness ==
    \E k \in DOMAIN trace[1] :
        /\ "tau_fi" \in trace[1][k].zeros
        /\ trace[1][k].out.raised
        /\ trace[1][k].out.variables.s # trace[1][k].pre.s

\* the steps run made that returned
Completed(o) == SelectSeq(trace[o], LAMBDA e : e.via = "run" /\ ~e.out.raised)

\* every step that returned, called by run or directly
Returned(o) == SelectSeq(trace[o], LAMBDA e : ~e.out.raised)

\* the history holds the variables after each step of Completed, in order
HistoryOfRuns ==
    \A o \in DOMAIN models : \A x \in Keys :
        /\ Len(History(o)[x]) = Len(Completed(o))
        /\ \A k \in DOMAIN Completed(o) :
               History(o)[x][k] = Completed(o)[k].out.variables[x]

\* the history lists only grow at the end
AppendOnly ==
    \A o \in DOMAIN models : \A x \in Keys :
        /\ Len(heap[models[o].history][x]') >= Len(heap[models[o].history][x])
        /\ SubSeq(heap[models[o].history][x]', 1, Len(heap[models[o].history][x]))
               = heap[models[o].history][x]

\* C8 as amended: the four history lists have equal length, the number of
\* steps that run has made and that returned (a step called directly appends
\* nothing), and no entry appended is ever changed or removed
C8_HistoryOfRunSteps == [](HistoryOfRuns) /\ [][AppendOnly]_vars

\* C8 as claimed: the length of each history list is the number of step
\* executions completed, whether step was called directly or from run
C8_HistoryOfAllSteps ==
    \A o \in DOMAIN models : \A x \in Keys : Len(History(o)[x]) = Len(Returned(o))

\* C8, its case: a run has made steps and step has been called directly
C8_Witness ==
    /\ Len(Completed(1)) >= 1
    /\ Len(Returned(1)) > Len(Completed(1))

\* the steps run made
OfRuns(o) == SelectSeq(trace[o], LAMBDA e : e.via = "run")

\* C9: over the run calls made on a model the step indices increase, and a
\* stimulation window that has ended is not applied again
C9_IndicesIncrease ==
    \A o \in DOMAIN models :
        \A j \in DOMAIN OfRuns(o) : \A k \in DOMAIN OfRuns(o) :
            j < k => OfRuns(o)[j].i < OfRuns(o)[k].i

\* x is in [0, 1]
InUnit(x) == FLe(Zero, x) /\ FLe(x, One)

GateTimeConstants ==
    {"tau_v1_m", "tau_v2_m", "tau_v_p", "tau_w1_m", "tau_w2_m", "tau_w_p", "tau_s1", "tau_s2"}

\* before the step the gates are in [0, 1], u >= 0, and 0 < c*dt <= every gate
\* time constant
GatesPre(dt, e, c) ==
    /\ e.zeros = {}
    /\ InUnit(e.pre.v) /\ InUnit(e.pre.w) /\ InUnit(e.pre.s)
    /\ FLe(Zero, e.pre.u)
    /\ FLt(Zero, dt)
    /\ \A t \in GateTimeConstants : FLe(FMul(c, dt), Defaults[t])

\* after the step the gates are in [0, 1]
GatesPost(e) ==
    /\ ~e.out.raised
    /\ InUnit(e.out.variables.v) /\ InUnit(e.out.variables.w) /\ InUnit(e.out.variables.s)

====
